---- MODULE Spec2Model ----
(***************************************************************************)
(* The tutoring marketplace's consistency layer: the relational schema,    *)
(* its row-level security policies and its triggers, as defined by the two *)
(* schema revisions of the repository (src/unnamed/part_000 and            *)
(* src/unnamed/part_001).  A database carries exactly one of the two       *)
(* revisions: each creates the same tables and the policy "Anyone can view *)
(* subjects", so neither can be applied on top of the other.               *)
(*                                                                         *)
(* Amounts are integer cents (DECIMAL(10,2)), ratings of profiles integer  *)
(* hundredths (DECIMAL(3,2)).  Rows carry the columns the policies,        *)
(* constraints and triggers read or write.                                 *)
(***************************************************************************)
EXTENDS Integers, FiniteSets, Sequences, TLC

VARIABLES
    schema,        \* the schema revision the database carries
    profiles,      \* table profiles
    lessons,       \* table lessons
    bookings,      \* table bookings
    transactions,  \* table transactions
    reviews,       \* table reviews
    sess,          \* concurrent sessions (open transactions) submitting reviews
    form           \* the registration form: its state and the position of handleSubmit

vars == <<schema, profiles, lessons, bookings, transactions, reviews, sess, form>>
tables == <<profiles, lessons, bookings, transactions, reviews>>

(***************************************************************************)
(* Bounds of the model.                                                    *)
(***************************************************************************)
MaxLessons == 1
MaxBookings == 2
MaxTransactions == 2
MaxReviews == 2

Revisions == {"part_000", "part_001"}

Identities == {"u1", "u2", "u3"}      \* ids issued by the authentication provider
System == "system"                    \* the table owner / service role
Callers == Identities \cup {System}

Null == "null"
Emails == {"e1", "e2", "e3"}
NameMeta == {Null, "n1"}                           \* raw_user_meta_data->>'full_name'
RoleMeta == {Null, "teacher", "admin", "other"}    \* raw_user_meta_data->>'user_type'

user_type == {"teacher", "student", "admin"}
booking_status == {"pending", "confirmed", "completed", "cancelled"}
StatusInputs == booking_status \cup {"expired"}
StoredRatingInputs == {0, 500, 1000}               \* profiles.rating, hundredths
RatingInputs == {0, 1, 2, 6}
AmountInputs == {-5, 0, 5, 14, 100}                   \* total_amount, cents
SuppliedInputs == {0, 7}                           \* caller-supplied commission / teacher amount, cents

(***************************************************************************)
(* Row security.                                                           *)
(***************************************************************************)

\* The tables read by the sub-selects of the policies that apply to command
\* cmd on table tbl.
Sublinks(rev, tbl, cmd) ==
    IF rev = "part_001"
    THEN CASE tbl = "profiles" /\ cmd \in {"SELECT", "UPDATE"} -> {"profiles"}
           [] tbl = "lessons" /\ cmd = "SELECT" -> {"profiles"}
           [] tbl = "bookings" /\ cmd = "SELECT" -> {"profiles"}
           [] tbl = "transactions" /\ cmd = "SELECT" -> {"profiles"}
           [] tbl = "reviews" /\ cmd = "INSERT" -> {"bookings"}
           [] OTHER -> {}
    ELSE CASE tbl = "transactions" -> {"profiles"}
           [] tbl = "reviews" /\ cmd = "INSERT" -> {"bookings"}
           [] OTHER -> {}

\* Expanding the policies of tbl for the commands cmds while the policies of
\* the tables in active are being expanded: the sub-selects of a policy are
\* themselves subject to the SELECT policies of the tables they read, and a
\* table whose policies lead back to itself makes the statement fail
\* ("infinite recursion detected in policy for relation").
RECURSIVE PolicyRecursion(_, _, _, _)
PolicyRecursion(rev, tbl, cmds, active) ==
    LET subs == UNION {Sublinks(rev, tbl, c) : c \in cmds}
    IN  /\ subs # {}
        /\ \/ tbl \in active
           \/ \E s \in subs : PolicyRecursion(rev, s, {"SELECT"}, active \cup {tbl})

\* A statement of caller c on tbl passes policy expansion.  Row security is
\* not applied to the table owner.
Expands(c, tbl, cmds) == c = System \/ ~PolicyRecursion(schema, tbl, cmds, {})

\* EXISTS (SELECT 1 FROM profiles WHERE id = auth.uid() AND user_type = 'admin')
IsAdmin(c) == \E p \in profiles : p.id = c /\ p.user_type = "admin"

\* Policies on bookings.
bookings_select(c, b) ==
    IF schema = "part_001"
    THEN b.student_id = c \/ b.teacher_id = c \/ IsAdmin(c)
    ELSE b.student_id = c \/ b.teacher_id = c

bookings_insert_check(c, b) == b.student_id = c

bookings_update_using(c, b) == b.teacher_id = c \/ b.student_id = c

\* Neither revision has a DELETE policy on bookings.
bookings_delete_using(c, b) == FALSE

\* Policies on lessons.
lessons_select(c, l) ==
    IF schema = "part_001"
    THEN l.is_active \/ l.teacher_id = c \/ IsAdmin(c)
    ELSE l.is_active \/ l.teacher_id = c

lessons_insert_check(c, l) == l.teacher_id = c

\* An UPDATE policy on lessons that passes every row.
lessons_update_using_Anyone(c, l) == TRUE

lessons_update_using(c, l) == l.teacher_id = c

\* part_000: "Teachers can manage own lessons" FOR ALL; part_001 has no
\* DELETE policy on lessons.
lessons_delete_using(c, l) ==
    IF schema = "part_001" THEN FALSE ELSE l.teacher_id = c

\* A table transactions every caller may read.
transactions_select_Public(c, t) == TRUE

\* Policies on transactions.  part_001 has no UPDATE policy: with row
\* security enabled no row is updatable by a caller subject to it.  The
\* policy FOR ALL of part_000 applies to SELECT as well.
transactions_select(c, t) == t.student_id = c \/ t.teacher_id = c \/ IsAdmin(c)

transactions_insert_check(c, t) ==
    IF schema = "part_001" THEN TRUE ELSE IsAdmin(c)

transactions_update_using(c, t) ==
    IF schema = "part_001" THEN FALSE ELSE IsAdmin(c)

\* Policies on reviews.  The sub-select on bookings sees the rows the
\* caller may select.  part_000 has no UPDATE policy on reviews.
reviews_insert_check(c, r) ==
    IF schema = "part_001"
    THEN /\ r.student_id = c
         /\ \E b \in bookings :
                /\ bookings_select(c, b)
                /\ b.id = r.booking_id /\ b.student_id = c /\ b.status = "completed"
    ELSE /\ r.student_id = c
         /\ \E b \in bookings :
                /\ bookings_select(c, b)
                /\ b.id = r.booking_id /\ b.status = "completed"

reviews_update_using(c, r) ==
    IF schema = "part_001" THEN r.student_id = c ELSE FALSE

\* Policies on profiles.
profiles_select(c, p) ==
    IF schema = "part_001"
    THEN (p.user_type = "teacher" /\ p.is_verified) \/ p.id = c \/ IsAdmin(c)
    ELSE TRUE

profiles_update_using(c, p) ==
    IF schema = "part_001" THEN p.id = c \/ IsAdmin(c) ELSE p.id = c

(***************************************************************************)
(* Keys.                                                                   *)
(***************************************************************************)
Ids(tbl) == {r.id : r \in tbl}

\* id ... DEFAULT uuid_generate_v4(): a key no stored row carries.
NewId(tbl, max) == CHOOSE i \in 1..max : i \notin Ids(tbl) /\ \A j \in 1..(i - 1) : j \in Ids(tbl)

(***************************************************************************)
(* Identity bootstrap.                                                     *)
(***************************************************************************)
DefaultName == IF schema = "part_001" THEN "new user" ELSE "User"

COALESCE(v, d) == IF v = Null THEN d ELSE v

\* A trigger function that gives every new profile the default role.
NewProfile_DefaultRole(id, email, meta) ==
    [id |-> id, email |-> email,
     full_name |-> COALESCE(meta.full_name, DefaultName),
     user_type |-> "student",
     is_verified |-> FALSE,
     rating |-> 0]

\* The row handle_new_user inserts for the auth.users row (id, email, meta).
NewProfile(id, email, meta) ==
    [id |-> id, email |-> email,
     full_name |-> COALESCE(meta.full_name, DefaultName),
     user_type |-> COALESCE(meta.user_type, "student"),
     is_verified |-> FALSE,
     rating |-> 0]

\* A table profiles without its primary key.
ProfileInsertable_NoPrimaryKey(row) ==
    /\ row.user_type \in user_type
    /\ schema = "part_001" => \A p \in profiles : p.email # row.email

\* The constraints of table profiles on a row to insert: the domain of
\* user_type, the primary key, and in part_001 the unique email.
ProfileInsertable(row) ==
    /\ row.user_type \in user_type
    /\ row.id \notin Ids(profiles)
    /\ schema = "part_001" => \A p \in profiles : p.email # row.email

\* A trigger function that replaces the profile of the id when it exists.
handle_new_user_Upsert(id, email, meta) ==
    /\ NewProfile(id, email, meta).user_type \in user_type
    /\ profiles' = {p \in profiles : p.id # id} \cup {NewProfile(id, email, meta)}
    /\ UNCHANGED <<form, schema, lessons, bookings, transactions, reviews, sess>>

\* Trigger on_auth_user_created: AFTER INSERT ON auth.users, SECURITY DEFINER
\* (row security not applied).  A violated constraint aborts the insert.
handle_new_user(id, email, meta) ==
    /\ ProfileInsertable(NewProfile(id, email, meta))
    /\ profiles' = profiles \cup {NewProfile(id, email, meta)}
    /\ UNCHANGED <<form, schema, lessons, bookings, transactions, reviews, sess>>

Metadata == [full_name : NameMeta, user_type : RoleMeta]

(***************************************************************************)
(* Catalog.                                                                *)
(***************************************************************************)
InsertLessonAllowed(c, row) ==
    /\ Cardinality(lessons) < MaxLessons
    /\ row.teacher_id \in Ids(profiles)
    /\ Expands(c, "lessons", {"INSERT"})
    /\ c # System => lessons_insert_check(c, row)

InsertLesson(c, teacher_id, is_active) ==
    LET row == [id |-> NewId(lessons, MaxLessons), teacher_id |-> teacher_id,
                is_active |-> is_active]
    IN  /\ InsertLessonAllowed(c, row)
        /\ lessons' = lessons \cup {row}
        /\ UNCHANGED <<form, schema, profiles, bookings, transactions, reviews, sess>>

\* UPDATE lessons SET teacher_id = .., is_active = .. WHERE id = ..
UpdateLessonAllowed(c, old, new) ==
    /\ new.teacher_id \in Ids(profiles)
    /\ Expands(c, "lessons", {"UPDATE", "SELECT"})
    /\ c # System =>
          /\ lessons_select(c, old) /\ lessons_update_using(c, old)
          /\ lessons_select(c, new) /\ lessons_update_using(c, new)

UpdateLesson(c, old, teacher_id, is_active) ==
    LET new == [old EXCEPT !.teacher_id = teacher_id, !.is_active = is_active]
    IN  /\ old \in lessons
        /\ UpdateLessonAllowed(c, old, new)
        /\ lessons' = (lessons \ {old}) \cup {new}
        /\ UNCHANGED <<form, schema, profiles, bookings, transactions, reviews, sess>>

(***************************************************************************)
(* Bookings.                                                               *)
(***************************************************************************)
\* The constraints of table bookings: foreign keys and the status domain.
BookingValid(row) ==
    /\ row.lesson_id \in Ids(lessons)
    /\ row.student_id \in Ids(profiles)
    /\ row.teacher_id \in Ids(profiles)
    /\ row.status \in booking_status

InsertBookingAllowed(c, row) ==
    /\ Cardinality(bookings) < MaxBookings
    /\ BookingValid(row)
    /\ Expands(c, "bookings", {"INSERT"})
    /\ c # System => bookings_insert_check(c, row)

InsertBooking(c, lesson_id, student_id, teacher_id, status) ==
    LET row == [id |-> NewId(bookings, MaxBookings), lesson_id |-> lesson_id,
                student_id |-> student_id, teacher_id |-> teacher_id,
                status |-> status]
    IN  /\ InsertBookingAllowed(c, row)
        /\ bookings' = bookings \cup {row}
        /\ UNCHANGED <<form, schema, profiles, lessons, transactions, reviews, sess>>

\* An UPDATE of bookings that no policy restricts.
UpdateBookingAllowed_NoRowSecurity(c, old, new) == BookingValid(new)

\* UPDATE bookings SET teacher_id = .., status = .. WHERE id = ..
UpdateBookingAllowed(c, old, new) ==
    /\ BookingValid(new)
    /\ Expands(c, "bookings", {"UPDATE", "SELECT"})
    /\ c # System =>
          /\ bookings_select(c, old) /\ bookings_update_using(c, old)
          /\ bookings_select(c, new) /\ bookings_update_using(c, new)

UpdateBooking(c, old, teacher_id, status) ==
    LET new == [old EXCEPT !.teacher_id = teacher_id, !.status = status]
    IN  /\ old \in bookings
        /\ UpdateBookingAllowed(c, old, new)
        /\ bookings' = (bookings \ {old}) \cup {new}
        /\ UNCHANGED <<form, schema, profiles, lessons, transactions, reviews, sess>>

(***************************************************************************)
(* Reads.  SELECT ... FROM tbl by caller c returns the rows the SELECT      *)
(* policies pass, and fails when the policies do not expand.               *)
(***************************************************************************)
LessonVisible(c, l) ==
    /\ Expands(c, "lessons", {"SELECT"})
    /\ c # System => lessons_select(c, l)

TransactionVisible(c, t) ==
    /\ Expands(c, "transactions", {"SELECT"})
    /\ c # System => transactions_select(c, t)

(***************************************************************************)
(* Profiles.                                                               *)
(***************************************************************************)
\* An UPDATE of profiles that no policy restricts.
UpdateProfileAllowed_NoRowSecurity(c, old, new) == new.user_type \in user_type

\* UPDATE profiles SET user_type = .., is_verified = .. WHERE id = ..
UpdateProfileAllowed(c, old, new) ==
    /\ new.user_type \in user_type
    /\ Expands(c, "profiles", {"UPDATE", "SELECT"})
    /\ c # System =>
          /\ profiles_select(c, old) /\ profiles_update_using(c, old)
          /\ profiles_select(c, new) /\ profiles_update_using(c, new)

UpdateProfile(c, old, role, is_verified) ==
    LET new == [old EXCEPT !.user_type = role, !.is_verified = is_verified]
    IN  /\ old \in profiles
        /\ UpdateProfileAllowed(c, old, new)
        /\ profiles' = (profiles \ {old}) \cup {new}
        /\ UNCHANGED <<form, schema, lessons, bookings, transactions, reviews, sess>>

\* UPDATE profiles SET rating = .. WHERE id = ..: the policies name no
\* column, and the tables are granted with all their columns.
UpdateProfileRating(c, old, rating) ==
    LET new == [old EXCEPT !.rating = rating]
    IN  /\ old \in profiles
        /\ rating \in -999..999
        /\ UpdateProfileAllowed(c, old, new)
        /\ profiles' = (profiles \ {old}) \cup {new}
        /\ UNCHANGED <<form, schema, lessons, bookings, transactions, reviews, sess>>

(***************************************************************************)
(* Deletes.  The foreign keys of bookings, transactions and reviews are    *)
(* declared ON DELETE CASCADE; the cascade is not subject to row security. *)
(* No trigger of either revision fires on DELETE.                          *)
(***************************************************************************)
DeleteBookingAllowed(c, b) ==
    /\ Expands(c, "bookings", {"DELETE", "SELECT"})
    /\ c # System => bookings_select(c, b) /\ bookings_delete_using(c, b)

\* The rows of tbl that reference one of the bookings bs.
OfBookings(tbl, bs) == {r \in tbl : r.booking_id \in Ids(bs)}

\* A DELETE of a booking that leaves the rows referencing it in place.
DeleteBooking_NoCascade(c, b) ==
    /\ b \in bookings
    /\ DeleteBookingAllowed(c, b)
    /\ bookings' = bookings \ {b}
    /\ UNCHANGED <<form, schema, profiles, lessons, transactions, reviews, sess>>

\* DELETE FROM bookings WHERE id = ..
DeleteBooking(c, b) ==
    /\ b \in bookings
    /\ DeleteBookingAllowed(c, b)
    /\ bookings' = bookings \ {b}
    /\ transactions' = transactions \ OfBookings(transactions, {b})
    /\ reviews' = reviews \ OfBookings(reviews, {b})
    /\ UNCHANGED <<form, schema, profiles, lessons, sess>>

DeleteLessonAllowed(c, l) ==
    /\ Expands(c, "lessons", {"DELETE", "SELECT"})
    /\ c # System => lessons_select(c, l) /\ lessons_delete_using(c, l)

\* DELETE FROM lessons WHERE id = ..: the bookings of the lesson go with it,
\* and with them their transactions and reviews.
DeleteLesson(c, l) ==
    LET bs == {b \in bookings : b.lesson_id = l.id}
    IN  /\ l \in lessons
        /\ DeleteLessonAllowed(c, l)
        /\ lessons' = lessons \ {l}
        /\ bookings' = bookings \ bs
        /\ transactions' = transactions \ OfBookings(transactions, bs)
        /\ reviews' = reviews \ OfBookings(reviews, bs)
        /\ UNCHANGED <<form, schema, profiles, sess>>

(***************************************************************************)
(* Numeric arithmetic.                                                     *)
(***************************************************************************)
\* n / d rounded to the nearest integer, ties away from zero: the rounding
\* of a numeric value stored into a DECIMAL(p,2) column (d > 0).
RoundDiv(n, d) ==
    IF n >= 0 THEN (2 * n + d) \div (2 * d) ELSE -((2 * (-n) + d) \div (2 * d))

(***************************************************************************)
(* Transaction ledger.                                                     *)
(***************************************************************************)
\* A trigger that derives the teacher amount from the commission it was
\* handed, without assigning the commission.
calculate_transaction_amounts_KeepsCommission(new) ==
    [new EXCEPT !.teacher_amount = new.total_amount - new.platform_commission]

\* A trigger that truncates the commission to whole cents.
calculate_transaction_amounts_Truncates(new) ==
    LET commission == (new.total_amount * 10) \div 100
    IN  [new EXCEPT !.platform_commission = commission,
                    !.teacher_amount = new.total_amount - commission]

\* new.platform_commission = new.total_amount * 0.10, stored at two decimals;
\* new.teacher_amount = new.total_amount - new.platform_commission.
calculate_transaction_amounts(new) ==
    LET commission == RoundDiv(new.total_amount * 10, 100)
    IN  [new EXCEPT !.platform_commission = commission,
                    !.teacher_amount = new.total_amount - commission]

\* calculate_transaction_amounts_trigger: BEFORE INSERT OR UPDATE, FOR EACH
\* ROW; part_000 defines no such trigger.
TransactionStored(new) ==
    IF schema = "part_001" THEN calculate_transaction_amounts(new) ELSE new

\* The constraints of table transactions: its foreign keys.
TransactionValid(row) ==
    /\ row.booking_id \in Ids(bookings)
    /\ row.student_id \in Ids(profiles)
    /\ row.teacher_id \in Ids(profiles)

InsertTransactionAllowed(c, row) ==
    /\ Cardinality(transactions) < MaxTransactions
    /\ TransactionValid(row)
    /\ Expands(c, "transactions", {"INSERT"})
    /\ c # System => transactions_insert_check(c, row)

InsertTransaction(c, booking_id, student_id, teacher_id, total, commission, amount) ==
    LET row == TransactionStored(
                   [id |-> NewId(transactions, MaxTransactions),
                    booking_id |-> booking_id, student_id |-> student_id,
                    teacher_id |-> teacher_id, total_amount |-> total,
                    platform_commission |-> commission, teacher_amount |-> amount])
    IN  /\ InsertTransactionAllowed(c, row)
        /\ transactions' = transactions \cup {row}
        /\ UNCHANGED <<form, schema, profiles, lessons, bookings, reviews, sess>>

\* UPDATE transactions SET total_amount = .., platform_commission = ..,
\* teacher_amount = .. WHERE id = ..
UpdateTransactionAllowed(c, old, new) ==
    /\ Expands(c, "transactions", {"UPDATE", "SELECT"})
    /\ c # System =>
          /\ transactions_select(c, old) /\ transactions_update_using(c, old)
          /\ transactions_select(c, new) /\ transactions_update_using(c, new)

UpdateTransaction(c, old, total, commission, amount) ==
    LET new == TransactionStored(
                   [old EXCEPT !.total_amount = total,
                               !.platform_commission = commission,
                               !.teacher_amount = amount])
    IN  /\ old \in transactions
        /\ UpdateTransactionAllowed(c, old, new)
        /\ transactions' = (transactions \ {old}) \cup {new}
        /\ UNCHANGED <<form, schema, profiles, lessons, bookings, reviews, sess>>

(***************************************************************************)
(* Reviews and the rating aggregate.                                       *)
(***************************************************************************)
RECURSIVE SumRatings(_)
SumRatings(rs) ==
    IF rs = {} THEN 0
    ELSE LET r == CHOOSE x \in rs : TRUE IN r.rating + SumRatings(rs \ {r})

\* SELECT COALESCE(AVG(rating::decimal), 0) FROM reviews WHERE teacher_id = t,
\* as stored into profiles.rating DECIMAL(3,2): hundredths.
AvgRating(t, rs) ==
    LET mine == {r \in rs : r.teacher_id = t}
    IN  IF mine = {} THEN 0
        ELSE RoundDiv(100 * SumRatings(mine), Cardinality(mine))

\* The function update_teacher_stats runs with the rights of the caller of
\* the triggering statement: its UPDATE of profiles is subject to the
\* policies of profiles.
TeacherStatsRuns(c) == Expands(c, "profiles", {"UPDATE", "SELECT"})

\* A trigger that recomputes the rating of every profile.
update_teacher_stats_AllTeachers(c, new, rs) ==
    {[p EXCEPT !.rating = AvgRating(p.id, rs)] : p \in profiles}

\* A trigger that aggregates the reviews as they were before the write.
update_teacher_stats_BeforeWrite(c, new, rs) ==
    {IF p.id = new.teacher_id
     THEN [p EXCEPT !.rating = AvgRating(new.teacher_id, reviews)]
     ELSE p : p \in profiles}

\* UPDATE profiles SET rating = (SELECT ...) WHERE id = new.teacher_id,
\* over the reviews rs as they are after the triggering write.
update_teacher_stats(c, new, rs) ==
    {IF /\ p.id = new.teacher_id
        /\ c # System => profiles_select(c, p) /\ profiles_update_using(c, p)
     THEN [p EXCEPT !.rating = AvgRating(new.teacher_id, rs)]
     ELSE p : p \in profiles}

\* update_teacher_stats_trigger: AFTER INSERT OR UPDATE ON reviews, FOR EACH
\* ROW; part_000 defines no such trigger.
HasStatsTrigger == schema = "part_001"

\* The constraints of table reviews: foreign keys and the rating CHECK.
ReviewValid(row) ==
    /\ row.booking_id \in Ids(bookings)
    /\ row.student_id \in Ids(profiles)
    /\ row.teacher_id \in Ids(profiles)
    /\ row.rating >= 1 /\ row.rating <= 5

InsertReviewAllowed(c, row) ==
    /\ ReviewValid(row)
    /\ Expands(c, "reviews", {"INSERT"})
    /\ c # System => reviews_insert_check(c, row)
    /\ HasStatsTrigger => TeacherStatsRuns(c)

InsertReview(c, booking_id, student_id, teacher_id, rating) ==
    LET row == [id |-> NewId(reviews, MaxReviews), booking_id |-> booking_id,
                student_id |-> student_id, teacher_id |-> teacher_id,
                rating |-> rating]
    IN  /\ Cardinality(reviews) < MaxReviews
        /\ InsertReviewAllowed(c, row)
        /\ reviews' = reviews \cup {row}
        /\ profiles' = IF HasStatsTrigger
                       THEN update_teacher_stats(c, row, reviews \cup {row})
                       ELSE profiles
        /\ UNCHANGED <<form, schema, lessons, bookings, transactions, sess>>

\* UPDATE reviews SET teacher_id = .., rating = .. WHERE id = ..
UpdateReviewAllowed(c, old, new) ==
    /\ ReviewValid(new)
    /\ Expands(c, "reviews", {"UPDATE", "SELECT"})
    /\ c # System => reviews_update_using(c, old) /\ reviews_update_using(c, new)
    /\ HasStatsTrigger => TeacherStatsRuns(c)

UpdateReview(c, old, teacher_id, rating) ==
    LET new == [old EXCEPT !.teacher_id = teacher_id, !.rating = rating]
    IN  /\ old \in reviews
        /\ UpdateReviewAllowed(c, old, new)
        /\ reviews' = (reviews \ {old}) \cup {new}
        /\ profiles' = IF HasStatsTrigger
                       THEN update_teacher_stats(c, new, (reviews \ {old}) \cup {new})
                       ELSE profiles
        /\ UNCHANGED <<form, schema, lessons, bookings, transactions, sess>>

(***************************************************************************)
(* Trigger chains.                                                         *)
(***************************************************************************)
Statements ==
    {"auth.users", "profiles", "lessons", "bookings", "transactions", "reviews"}
        \X {"INSERT", "UPDATE", "DELETE"}

\* The statements issued by the trigger functions that statement st fires.
\* handle_updated_at and calculate_transaction_amounts assign to NEW and
\* issue none.
TriggerWrites(rev, st) ==
    CASE st = <<"auth.users", "INSERT">> -> {<<"profiles", "INSERT">>}
      [] rev = "part_001" /\ st \in {<<"reviews", "INSERT">>, <<"reviews", "UPDATE">>}
             -> {<<"profiles", "UPDATE">>}
      [] OTHER -> {}

\* The chain of triggers fired by statement st comes back to a statement
\* of the chain.
RECURSIVE TriggerChainLoops(_, _, _)
TriggerChainLoops(rev, st, active) ==
    \/ st \in active
    \/ \E w \in TriggerWrites(rev, st) : TriggerChainLoops(rev, w, active \cup {st})

(***************************************************************************)
(* The registration form (RegisterForm.tsx).  handleSubmit runs in steps:  *)
(* the await of signUp yields to the event loop, and the submit button is  *)
(* disabled while loading, so one run is open at a time.                   *)
(***************************************************************************)
Passwords == {"pw1", "pw2"}
FormRoles == {"student", "teacher"}                \* the options of select user_type

\* useState of the component, before the first submit.
FormIdle ==
    [pc |-> "idle", loading |-> FALSE,
     email |-> "", password |-> "", confirmPassword |-> "",
     user_type |-> "student",
     promise |-> "none", route |-> "/register"]

\* The user fills the form and presses the button (enabled while not
\* loading): preventDefault, setLoading(true).
handleSubmit_Begin ==
    /\ form.pc \in {"idle", "done"} /\ ~form.loading
    /\ \E email \in Emails, password \in Passwords, confirmPassword \in Passwords,
          role \in FormRoles :
           form' = [pc |-> "check", loading |-> TRUE,
                    email |-> email, password |-> password,
                    confirmPassword |-> confirmPassword, user_type |-> role,
                    promise |-> "none", route |-> "/register"]
    /\ UNCHANGED <<schema, profiles, lessons, bookings, transactions, reviews, sess>>

\* password !== confirmPassword: alert, setLoading(false), return.
handleSubmit_Mismatch ==
    /\ form.pc = "check"
    /\ form.password # form.confirmPassword
    /\ form' = [form EXCEPT !.pc = "done", !.loading = FALSE]
    /\ UNCHANGED <<schema, profiles, lessons, bookings, transactions, reviews, sess>>

\* A handler that calls signUp whatever the two passwords are.
handleSubmit_CallSignUp_Unchecked ==
    /\ form.pc = "check"
    /\ form' = [form EXCEPT !.pc = "await", !.promise = "pending"]
    /\ UNCHANGED <<schema, profiles, lessons, bookings, transactions, reviews, sess>>

\* The try block: signUp(email, password, userData) is called and awaited.
handleSubmit_CallSignUp ==
    /\ form.pc = "check"
    /\ form.password = form.confirmPassword
    /\ form' = [form EXCEPT !.pc = "await", !.promise = "pending"]
    /\ UNCHANGED <<schema, profiles, lessons, bookings, transactions, reviews, sess>>

\* user_metadata of the account the form registers.
FormMetadata == [full_name |-> "n1", user_type |-> form.user_type]

\* signUp completes: the account is a new row of auth.users, for which
\* on_auth_user_created inserts the profile.
signUp_Resolves ==
    /\ form.pc = "await"
    /\ \E id \in Identities :
           /\ ProfileInsertable(NewProfile(id, form.email, FormMetadata))
           /\ profiles' = profiles \cup {NewProfile(id, form.email, FormMetadata)}
    /\ form' = [form EXCEPT !.pc = "navigate", !.promise = "fulfilled"]
    /\ UNCHANGED <<schema, lessons, bookings, transactions, reviews, sess>>

\* signUp throws (the account was refused, or the request failed): nothing
\* is stored.
signUp_Throws ==
    /\ form.pc = "await"
    /\ form' = [form EXCEPT !.pc = "catch", !.promise = "rejected"]
    /\ UNCHANGED <<schema, profiles, lessons, bookings, transactions, reviews, sess>>

\* navigate('/') after the await.
handleSubmit_Navigate ==
    /\ form.pc = "navigate"
    /\ form' = [form EXCEPT !.pc = "finally", !.route = "/"]
    /\ UNCHANGED <<schema, profiles, lessons, bookings, transactions, reviews, sess>>

\* catch (error): console.error.
handleSubmit_Catch ==
    /\ form.pc = "catch"
    /\ form' = [form EXCEPT !.pc = "finally"]
    /\ UNCHANGED <<schema, profiles, lessons, bookings, transactions, reviews, sess>>

\* finally: setLoading(false).
handleSubmit_Finally ==
    /\ form.pc = "finally"
    /\ form' = [form EXCEPT !.pc = "done", !.loading = FALSE]
    /\ UNCHANGED <<schema, profiles, lessons, bookings, transactions, reviews, sess>>

(***************************************************************************)
(* Specifications.                                                         *)
(***************************************************************************)
Sessions == {"s1", "s2"}

\* The row of a session that has no statement open.
NoRow == [id |-> 0, booking_id |-> 0, student_id |-> Null, teacher_id |-> Null,
          rating |-> 0]

SessIdle == [s \in Sessions |-> [pc |-> "idle", row |-> NoRow, avg |-> 0]]

\* The database after the migration: one of the two revisions, empty tables.
Init ==
    /\ schema \in Revisions
    /\ profiles = {} /\ lessons = {} /\ bookings = {}
    /\ transactions = {} /\ reviews = {}
    /\ sess = SessIdle
    /\ form = FormIdle

SignUp == \E id \in Identities, email \in Emails, meta \in Metadata :
              handle_new_user(id, email, meta)

LessonInsert == \E c \in Callers, t \in Identities, a \in BOOLEAN :
                    InsertLesson(c, t, a)

LessonUpdate == \E c \in Callers, l \in lessons, t \in Identities, a \in BOOLEAN :
                    UpdateLesson(c, l, t, a)

BookingInsert == \E c \in Callers, l \in Ids(lessons), st \in Identities,
                    t \in Identities, s \in StatusInputs :
                     InsertBooking(c, l, st, t, s)

BookingUpdate == \E c \in Callers, b \in bookings, t \in Identities, s \in StatusInputs :
                     UpdateBooking(c, b, t, s)

TransactionInsert == \E c \in Callers, b \in Ids(bookings), st \in Identities,
                        t \in Identities, total \in AmountInputs,
                        pc \in SuppliedInputs, ta \in SuppliedInputs :
                         InsertTransaction(c, b, st, t, total, pc, ta)

TransactionUpdate == \E c \in Callers, t \in transactions, total \in AmountInputs,
                        pc \in SuppliedInputs, ta \in SuppliedInputs :
                         UpdateTransaction(c, t, total, pc, ta)

ReviewInsert == \E c \in Callers, b \in Ids(bookings), st \in Identities,
                   t \in Identities, r \in RatingInputs :
                    InsertReview(c, b, st, t, r)

ReviewUpdate == \E c \in Callers, old \in reviews, t \in Identities, r \in RatingInputs :
                    UpdateReview(c, old, t, r)

ProfileUpdate == \E c \in Callers, p \in profiles, role \in user_type, v \in BOOLEAN :
                     UpdateProfile(c, p, role, v)

LessonDelete == \E c \in Callers, l \in lessons : DeleteLesson(c, l)

BookingDelete == \E c \in Callers, b \in bookings : DeleteBooking(c, b)

ProfileRatingUpdate == \E c \in Callers, p \in profiles, x \in StoredRatingInputs :
                           UpdateProfileRating(c, p, x)

Next ==
    \/ SignUp \/ ProfileUpdate \/ ProfileRatingUpdate
    \/ LessonInsert \/ LessonUpdate \/ LessonDelete
    \/ BookingInsert \/ BookingUpdate \/ BookingDelete
    \/ TransactionInsert \/ TransactionUpdate
    \/ ReviewInsert \/ ReviewUpdate

Spec == Init /\ [][Next]_vars

\* Identity bootstrap on the empty database, beside teachers publishing
\* lessons.
LessonPublish == \E t \in Identities : InsertLesson(t, t, TRUE)

NextBootstrap == SignUp \/ LessonPublish

SpecBootstrap == Init /\ [][NextBootstrap]_vars

\* A populated database: the state reached from Init by three sign-ups
\* (a teacher, a student, an admin), a lesson of the teacher and a booking
\* of it by the student.
PopulatedProfiles ==
    {[id |-> "u1", email |-> "e1", full_name |-> "n1", user_type |-> "teacher",
      is_verified |-> FALSE, rating |-> 0],
     [id |-> "u2", email |-> "e2", full_name |-> "n1", user_type |-> "student",
      is_verified |-> FALSE, rating |-> 0],
     [id |-> "u3", email |-> "e3", full_name |-> "n1", user_type |-> "admin",
      is_verified |-> FALSE, rating |-> 0]}

PopulatedLessons == {[id |-> 1, teacher_id |-> "u1", is_active |-> TRUE]}

PopulatedBookings ==
    {[id |-> 1, lesson_id |-> 1, student_id |-> "u2", teacher_id |-> "u1",
      status |-> "pending"]}

InitProfiles ==
    /\ schema \in Revisions
    /\ profiles = PopulatedProfiles
    /\ lessons = {} /\ bookings = {}
    /\ transactions = {} /\ reviews = {}
    /\ sess = SessIdle
    /\ form = FormIdle

InitPopulated ==
    /\ schema \in Revisions
    /\ profiles = PopulatedProfiles
    /\ lessons = PopulatedLessons
    /\ bookings = PopulatedBookings
    /\ transactions = {} /\ reviews = {}
    /\ sess = SessIdle
    /\ form = FormIdle

\* Catalog and bookings among the registered users.
NextBooking == LessonInsert \/ LessonUpdate \/ BookingInsert \/ BookingUpdate

SpecBooking == InitProfiles /\ [][NextBooking]_vars

\* The ledger of the populated database: payments recorded for the parties
\* of a booking, and updates of the recorded amounts.
PaymentInsert == \E c \in Callers, b \in bookings, total \in AmountInputs,
                    pc \in SuppliedInputs, ta \in SuppliedInputs :
                     InsertTransaction(c, b.id, b.student_id, b.teacher_id, total, pc, ta)

NextLedger == PaymentInsert \/ TransactionUpdate

SpecLedger == InitPopulated /\ [][NextLedger]_vars

\* Who reads the ledger: transactions recorded for any pair of registered
\* users, while the owner changes the roles of profiles.
PartiesPaymentInsert == \E c \in Callers, b \in Ids(bookings), st \in Identities,
                           t \in Identities :
                            InsertTransaction(c, b, st, t, 100, 0, 0)

RoleChange == \E p \in profiles, role \in user_type :
                  UpdateProfile(System, p, role, p.is_verified)

NextLedgerAccess == PartiesPaymentInsert \/ RoleChange

SpecLedgerAccess == InitPopulated /\ [][NextLedgerAccess]_vars

\* Reviews of the populated database: status updates of its booking, review
\* inserts, and updates of a review's rating.
BookingStatusUpdate == \E c \in Callers, b \in bookings, s \in StatusInputs :
                           UpdateBooking(c, b, b.teacher_id, s)

ReviewRatingUpdate == \E c \in Callers, old \in reviews, r \in RatingInputs :
                          UpdateReview(c, old, old.teacher_id, r)

NextReview == BookingStatusUpdate \/ ReviewInsert \/ ReviewRatingUpdate

SpecReview == InitPopulated /\ [][NextReview]_vars

\* The catalog among the registered users, while the owner changes the roles
\* of profiles.
NextCatalog == LessonInsert \/ LessonUpdate \/ LessonDelete \/ RoleChange

SpecCatalog == InitProfiles /\ [][NextCatalog]_vars

\* The bookings of the populated database: requests of a lesson by a user
\* for themselves, status updates and deletes.
BookingRequest == \E c \in Identities, l \in lessons :
                      InsertBooking(c, l.id, c, l.teacher_id, "pending")

NextBookingStatus == BookingRequest \/ BookingStatusUpdate \/ BookingDelete

SpecBookingStatus == InitPopulated /\ [][NextBookingStatus]_vars

\* The profiles of the populated database: updates of the role of a
\* profile, beside the completion of a booking and the reviews of a booking
\* by its student, whose trigger writes the rating of the teacher's profile.
ProfileRoleUpdate == \E c \in Callers, p \in profiles, role \in user_type :
                         UpdateProfile(c, p, role, p.is_verified)

BookingComplete == \E c \in Callers, b \in bookings :
                       UpdateBooking(c, b, b.teacher_id, "completed")

ReviewSubmit == \E c \in Callers, b \in bookings, r \in RatingInputs :
                    InsertReview(c, b.id, b.student_id, b.teacher_id, r)

NextProfiles == ProfileRoleUpdate \/ BookingComplete \/ ReviewSubmit

SpecProfiles == InitPopulated /\ [][NextProfiles]_vars

\* The rows a booking owns: a lesson booked again by a student of it,
\* payments recorded and reviews submitted for the bookings, and bookings and
\* lessons deleted.
BookingRepeat == \E b \in bookings :
                     InsertBooking(b.student_id, b.lesson_id, b.student_id, b.teacher_id,
                                   "pending")

PaymentRecord == \E c \in Callers, b \in bookings :
                     InsertTransaction(c, b.id, b.student_id, b.teacher_id, 100, 0, 0)

NextCascade ==
    \/ BookingRepeat \/ PaymentRecord \/ ReviewSubmit
    \/ BookingDelete \/ LessonDelete

SpecCascade == InitPopulated /\ [][NextCascade]_vars

\* The columns of the profiles of the populated database: updates of the
\* role and of the rating.
NextProfileColumns == ProfileRoleUpdate \/ ProfileRatingUpdate

SpecProfileColumns == InitPopulated /\ [][NextProfileColumns]_vars

\* Accepted and rejected operations: the populated database before its
\* third user signed up; sign-ups, the completion of the booking and review
\* submissions for it by any caller and with any rating.
InitTwoUsers ==
    /\ schema \in Revisions
    /\ profiles = {p \in PopulatedProfiles : p.id # "u3"}
    /\ lessons = PopulatedLessons
    /\ bookings = PopulatedBookings
    /\ transactions = {} /\ reviews = {}
    /\ sess = SessIdle
    /\ form = FormIdle

NextRejections == SignUp \/ BookingComplete \/ ReviewSubmit

SpecRejections == InitTwoUsers /\ [][NextRejections]_vars

\* Registrations through the form, on an empty database.
NextRegister ==
    \/ handleSubmit_Begin
    \/ handleSubmit_Mismatch
    \/ handleSubmit_CallSignUp
    \/ signUp_Resolves
    \/ signUp_Throws
    \/ handleSubmit_Navigate
    \/ handleSubmit_Catch
    \/ handleSubmit_Finally

SpecRegister == Init /\ [][NextRegister]_vars

(***************************************************************************)
(* Concurrent review submissions.  Each session runs one transaction at    *)
(* the default isolation level (READ COMMITTED): the review it inserts is  *)
(* visible to itself alone until it commits; the UPDATE of the trigger     *)
(* aggregates over the snapshot taken when the UPDATE starts (the          *)
(* committed reviews and the session's own row); it then waits for the     *)
(* row lock of the profile while another open transaction holds it, and    *)
(* writes the value aggregated at its snapshot.                            *)
(***************************************************************************)
Pending == {sess[s].row : s \in {x \in Sessions : sess[x].pc # "idle"}}

\* INSERT INTO reviews in an open transaction.
TxInsert(s, c, booking_id, student_id, teacher_id, rating) ==
    LET row == [id |-> NewId(reviews \cup Pending, MaxReviews),
                booking_id |-> booking_id, student_id |-> student_id,
                teacher_id |-> teacher_id, rating |-> rating]
    IN  /\ sess[s].pc = "idle"
        /\ HasStatsTrigger
        /\ Cardinality(reviews \cup Pending) < MaxReviews
        /\ InsertReviewAllowed(c, row)
        /\ sess' = [sess EXCEPT ![s] = [pc |-> "inserted", row |-> row, avg |-> 0]]
        /\ UNCHANGED <<form, schema, profiles, lessons, bookings, transactions, reviews>>

\* update_teacher_stats: the sub-select of the UPDATE reads the reviews.
TxAggregate(s) ==
    /\ sess[s].pc = "inserted"
    /\ sess' = [sess EXCEPT ![s].pc = "read",
                            ![s].avg = AvgRating(sess[s].row.teacher_id,
                                                 reviews \cup {sess[s].row})]
    /\ UNCHANGED <<form, schema, profiles, lessons, bookings, transactions, reviews>>

\* update_teacher_stats: the UPDATE takes the row lock of the profile and
\* writes the rating.
TxWriteRating(s) ==
    /\ sess[s].pc = "read"
    /\ \A o \in Sessions \ {s} :
           sess[o].pc = "written" => sess[o].row.teacher_id # sess[s].row.teacher_id
    /\ sess' = [sess EXCEPT ![s].pc = "written"]
    /\ UNCHANGED <<form, schema, profiles, lessons, bookings, transactions, reviews>>

\* A COMMIT that makes the review and the rating visible and keeps the row
\* lock of the profile.
TxCommit_HoldsLock(s) ==
    /\ sess[s].pc = "written"
    /\ reviews' = reviews \cup {sess[s].row}
    /\ profiles' = {IF p.id = sess[s].row.teacher_id
                    THEN [p EXCEPT !.rating = sess[s].avg] ELSE p : p \in profiles}
    /\ UNCHANGED <<form, schema, lessons, bookings, transactions, sess>>

\* COMMIT: the review and the rating become visible, the lock is released.
TxCommit(s) ==
    /\ sess[s].pc = "written"
    /\ reviews' = reviews \cup {sess[s].row}
    /\ profiles' = {IF p.id = sess[s].row.teacher_id
                    THEN [p EXCEPT !.rating = sess[s].avg] ELSE p : p \in profiles}
    /\ sess' = [sess EXCEPT ![s] = [pc |-> "idle", row |-> NoRow, avg |-> 0]]
    /\ UNCHANGED <<form, schema, lessons, bookings, transactions>>

TxSubmit == \E s \in Sessions, c \in Callers, b \in Ids(bookings), st \in Identities,
               t \in Identities, r \in RatingInputs :
                TxInsert(s, c, b, st, t, r)

NextConcurrent ==
    \/ TxSubmit
    \/ \E s \in Sessions : TxAggregate(s)
    \/ \E s \in Sessions : TxWriteRating(s)
    \/ \E s \in Sessions : TxCommit(s)

InitConcurrent == InitPopulated /\ schema = "part_001"

\* Reviews of a booking by its student for any teacher, submitted in
\* concurrent transactions, beside single-statement transactions that update
\* the teacher of a review: such an UPDATE waits while an open transaction
\* holds the row lock of the profile its trigger writes.
ReviewedTeachers == {"u1", "u3"}

ReviewTxSubmit == \E s \in Sessions, c \in Callers, b \in bookings,
                     t \in ReviewedTeachers, r \in RatingInputs :
                      TxInsert(s, c, b.id, b.student_id, t, r)

ReviewUpdateCommitted ==
    \E c \in Callers, old \in reviews, t \in ReviewedTeachers :
        /\ \A o \in Sessions : sess[o].pc = "written" => sess[o].row.teacher_id # t
        /\ UpdateReview(c, old, t, old.rating)

NextAggregates ==
    \/ ReviewTxSubmit
    \/ \E s \in Sessions : TxAggregate(s)
    \/ \E s \in Sessions : TxWriteRating(s)
    \/ \E s \in Sessions : TxCommit(s)
    \/ ReviewUpdateCommitted

SpecAggregates == InitConcurrent /\ [][NextAggregates]_vars

\* Concurrent review submissions under fair scheduling: the backend of a
\* session runs its statement and its commit to the end, and a transaction
\* waiting for a row lock is granted it when the holder ends.
NextSubmissions ==
    \/ ReviewTxSubmit
    \/ \E s \in Sessions : TxAggregate(s)
    \/ \E s \in Sessions : TxWriteRating(s)
    \/ \E s \in Sessions : TxCommit(s)

SpecSubmissions ==
    /\ InitConcurrent
    /\ [][NextSubmissions]_vars
    /\ \A s \in Sessions :
           /\ WF_vars(TxAggregate(s))
           /\ SF_vars(TxWriteRating(s))
           /\ WF_vars(TxCommit(s))

SpecConcurrent == InitConcurrent /\ [][NextConcurrent]_vars

(***************************************************************************)
(* Transaction ledger: properties.                                         *)
(***************************************************************************)
\* A row whose commission is a tenth of its total at the two decimals of the
\* column, and whose teacher amount is the rest of the total.
Derived(t) ==
    /\ 100 * t.platform_commission - 10 * t.total_amount \in -50..50
    /\ t.teacher_amount = t.total_amount - t.platform_commission

ReviewsOf(t) == {r \in reviews : r.teacher_id = t}

\* rating (hundredths) is the mean of the ratings rs at two decimals.
IsMean(rating, rs) ==
    IF rs = {} THEN rating = 0
    ELSE LET n == Cardinality(rs)
             d == rating * n - 100 * SumRatings(rs)
         IN  2 * d <= n /\ 2 * d >= -n

C4_ReviewInsertGuard ==
    \A c \in Identities, b \in bookings, t \in Ids(profiles), r \in 1..5 :
        LET row == [id |-> 0, booking_id |-> b.id, student_id |-> c,
                    teacher_id |-> t, rating |-> r]
        IN  InsertReviewAllowed(c, row) <=> (b.student_id = c /\ b.status = "completed")

\* C5: once concurrent review submissions have all committed, the rating of
\* every teacher is the mean over all committed reviews: no interleaving
\* loses an update of the aggregate.
C5_NoLostUpdate ==
    (\A s \in Sessions : sess[s].pc = "idle") =>
        \A p \in profiles : IsMean(p.rating, ReviewsOf(p.id))

(***************************************************************************)
(* Bookings: properties.                                                   *)
(***************************************************************************)
LegalTransitions ==
    {<<"pending", "confirmed">>, <<"confirmed", "completed">>,
     <<"pending", "cancelled">>, <<"confirmed", "cancelled">>}

\* C6: an update of a booking by a user changes its status only along
\* pending -> confirmed, confirmed -> completed, pending -> cancelled and
\* confirmed -> cancelled; completed and cancelled are never left.
C6_TransitionGraph ==
    [][\A c \in Identities, b \in bookings, t \in Identities, s \in booking_status :
           UpdateBooking(c, b, t, s) =>
               (s = b.status \/ <<b.status, s>> \in LegalTransitions)]_vars

\* C9: a booking insert by a user succeeds only when the user is the
\* booking's student and the referenced lesson is active, and the booking it
\* creates has status pending.
C9_CreateBookingGuard ==
    [][\A c \in Identities, l \in lessons, st \in Identities, t \in Identities,
          s \in booking_status :
           InsertBooking(c, l.id, st, t, s) =>
               /\ st = c
               /\ l.is_active
               /\ \A b \in bookings' \ bookings : b.status = "pending"]_vars

\* C10: every booking's teacher_id is the teacher_id of the lesson it
\* references.
C10_TeacherOfLesson ==
    \A b \in bookings :
        \E l \in lessons : l.id = b.lesson_id /\ l.teacher_id = b.teacher_id

(***************************************************************************)
(* Identity bootstrap: properties.                                         *)
(***************************************************************************)
OneProfilePerId == \A p, q \in profiles : p.id = q.id => p = q

\* No new-identity event for an id that has a profile is accepted.
SecondBootstrapRejected ==
    \A id \in Ids(profiles), email \in Emails, meta \in Metadata :
        ~ProfileInsertable(NewProfile(id, email, meta))

ContractProfile(p, id, email, meta) ==
    /\ p.id = id /\ p.email = email
    /\ p.full_name = (IF meta.full_name = Null THEN DefaultName ELSE meta.full_name)
    /\ p.user_type = (IF meta.user_type = Null THEN "student" ELSE meta.user_type)
    /\ p.rating = 0

\* A step that adds exactly one profile, the contract's, and changes nothing
\* else in the store.
CreatesContractProfile(id, email, meta) ==
    /\ \E p \in profiles' :
           /\ p \notin profiles
           /\ profiles' = profiles \cup {p}
           /\ ContractProfile(p, id, email, meta)
    /\ UNCHANGED <<lessons, bookings, transactions, reviews>>

Fresh == Identities \ Ids(profiles)

\* The events of the authentication provider: the role of the metadata,
\* when present, is one of the three roles.
WellFormed == {meta \in Metadata : meta.user_type \in user_type \cup {Null}}

AllFreshAccepted ==
    \A id \in Fresh, email \in Emails, meta \in WellFormed :
        ProfileInsertable(NewProfile(id, email, meta))

EmailFree(email) == schema = "part_001" => \A p \in profiles : p.email # email

FreeFreshAccepted ==
    \A id \in Fresh, email \in Emails, meta \in WellFormed :
        EmailFree(email) => ProfileInsertable(NewProfile(id, email, meta))

C11_OneReviewPerBooking ==
    [][\A b \in bookings, r \in RatingInputs :
           InsertReview(b.student_id, b.id, b.student_id, b.teacher_id, r)
               => \A x \in reviews : x.booking_id # b.id]_vars

\* C12: no two stored transactions carry the same booking id.
C12_OneTransactionPerBooking ==
    \A t1, t2 \in transactions : t1.booking_id = t2.booking_id => t1 = t2

(***************************************************************************)
(* Access to the ledger.                                                   *)
(***************************************************************************)
\* C13: an insert or update of a transaction issued by a user succeeds only
\* when the user is an admin: none issued by a student or a teacher does.
C13_LedgerWriters ==
    [][\A c \in Identities :
           /\ \A b \in bookings, total \in AmountInputs,
                 pc \in SuppliedInputs, ta \in SuppliedInputs :
                  InsertTransaction(c, b.id, b.student_id, b.teacher_id, total, pc, ta)
                      => IsAdmin(c)
           /\ \A old \in transactions, total \in AmountInputs,
                 pc \in SuppliedInputs, ta \in SuppliedInputs :
                  UpdateTransaction(c, old, total, pc, ta) => IsAdmin(c)]_vars

\* C14: a stored transaction is readable by a user only if the user is the
\* transaction's student, the transaction's teacher, or has role admin.
C14_LedgerReaders ==
    \A c \in Identities, t \in transactions :
        TransactionVisible(c, t) =>
            \/ t.student_id = c
            \/ t.teacher_id = c
            \/ \E p \in profiles : p.id = c /\ p.user_type = "admin"

\* A transaction its student reads, one an admin who is no party of it
\* reads, and one a user who is neither cannot read.
C14_Witness ==
    /\ \E t \in transactions :
           TransactionVisible(t.student_id, t) /\ ~IsAdmin(t.student_id)
    /\ \E t \in transactions, c \in Identities :
           c \notin {t.student_id, t.teacher_id} /\ IsAdmin(c) /\ TransactionVisible(c, t)
    /\ \E t \in transactions, c \in Identities :
           c \notin {t.student_id, t.teacher_id} /\ ~IsAdmin(c) /\ ~TransactionVisible(c, t)

(***************************************************************************)
(* Catalog: properties.                                                    *)
(***************************************************************************)
\* C15: a user reads a lesson exactly when the lesson is active or the user
\* is its owning teacher: an inactive lesson is returned to its owner and to
\* nobody else, an active lesson to everybody.
C15_LessonReaders ==
    \A c \in Identities, l \in lessons :
        LessonVisible(c, l) <=> (l.is_active \/ l.teacher_id = c)

\* C16: a lesson insert by a user succeeds only for the user's own
\* teacher_id, a lesson update by a user only on a lesson the user owns, and
\* the updated lesson is still owned by the user.
C16_LessonOwnerWrites ==
    [][\A c \in Identities, t \in Identities, a \in BOOLEAN :
           /\ InsertLesson(c, t, a) => t = c
           /\ \A l \in lessons :
                  UpdateLesson(c, l, t, a) => (l.teacher_id = c /\ t = c)]_vars

\* An inactive lesson its owner may reactivate, which its owner may not hand
\* to another teacher and which no other user may update.
C16_Witness ==
    \E l \in lessons :
        /\ ~l.is_active
        /\ UpdateLessonAllowed(l.teacher_id, l, [l EXCEPT !.is_active = TRUE])
        /\ \A c \in Identities \ {l.teacher_id} :
               /\ ~UpdateLessonAllowed(c, l, [l EXCEPT !.is_active = TRUE])
               /\ ~UpdateLessonAllowed(l.teacher_id, l, [l EXCEPT !.teacher_id = c])
               /\ ~InsertLessonAllowed(c, [l EXCEPT !.id = 0])

\* C17: a status update of a booking by a user succeeds only when the user
\* is the booking's student or the booking's teacher.
C17_StatusByParticipants ==
    [][\A c \in Identities, b \in bookings, s \in booking_status :
           UpdateBooking(c, b, b.teacher_id, s)
               => (b.student_id = c \/ b.teacher_id = c)]_vars

\* A booking that left pending, which its student and its teacher may
\* update and a third user may not.
C17_Witness ==
    \E b \in bookings, c \in Identities :
        /\ b.status = "confirmed"
        /\ b.student_id # b.teacher_id
        /\ c \notin {b.student_id, b.teacher_id}
        /\ UpdateBookingAllowed(b.student_id, b, [b EXCEPT !.status = "cancelled"])
        /\ UpdateBookingAllowed(b.teacher_id, b, [b EXCEPT !.status = "completed"])
        /\ ~UpdateBookingAllowed(c, b, [b EXCEPT !.status = "cancelled"])

(***************************************************************************)
(* Profiles: properties.                                                   *)
(***************************************************************************)
\* C18: an update of a profile by a user succeeds only on the user's own
\* profile or when the user is an admin, and a review insert by a user who
\* is no admin leaves the profiles of all other users as they are.
C18_ProfileWriters ==
    [][\A c \in Identities :
           /\ \A p \in profiles, role \in user_type :
                  UpdateProfile(c, p, role, p.is_verified) => (p.id = c \/ IsAdmin(c))
           /\ \A b \in bookings, r \in RatingInputs :
                  InsertReview(c, b.id, b.student_id, b.teacher_id, r)
                      => (IsAdmin(c) \/ \A p \in profiles : p.id # c => p \in profiles')]_vars

\* A profile whose role was updated, which its user may update again and
\* another user who is no admin may not.
C18_Witness ==
    \E p \in profiles, c \in Identities :
        /\ p \notin PopulatedProfiles
        /\ c # p.id /\ ~IsAdmin(c)
        /\ UpdateProfileAllowed(p.id, p, [p EXCEPT !.user_type = "student"])
        /\ ~UpdateProfileAllowed(c, p, [p EXCEPT !.user_type = "student"])

(***************************************************************************)
(* Rating aggregates: frame.                                               *)
(***************************************************************************)
\* The step leaves the profile of every user other than t as it is.
OthersKept(t) == \A p \in profiles : p.id # t => p \in profiles'

\* C19: the commit of a review insert for teacher t, also while a review for
\* another teacher is being submitted in a concurrent transaction, and a
\* review update whose updated row names teacher t, change the rating of no
\* profile other than t's.
C19_OtherRatingsKept ==
    [][/\ \A s \in Sessions :
              (sess[s].pc = "written" /\ sess'[s].pc = "idle")
                  => OthersKept(sess[s].row.teacher_id)
       /\ (\A s \in Sessions : sess'[s].pc = sess[s].pc) =>
              \A c \in Callers, old \in reviews, t \in ReviewedTeachers :
                  UpdateReview(c, old, t, old.rating) => OthersKept(t)]_vars

\* Reviews for two teachers whose ratings were written in two concurrent
\* transactions, neither committed yet.
C19_Witness ==
    /\ sess["s1"].pc = "written" /\ sess["s2"].pc = "written"
    /\ sess["s1"].row.teacher_id # sess["s2"].row.teacher_id

(***************************************************************************)
(* Referential integrity.                                                  *)
(***************************************************************************)
\* C20: every stored transaction and every stored review references a
\* booking that exists: the delete of a booking, or of its lesson, deletes
\* them with it.
C20_OwnedRowsHaveBooking ==
    /\ \A t \in transactions : t.booking_id \in Ids(bookings)
    /\ \A r \in reviews : r.booking_id \in Ids(bookings)

\* The first transaction and the first review are gone with their booking,
\* the second ones are stored with theirs.
C20_Witness ==
    /\ Ids(transactions) = {2}
    /\ Ids(reviews) = {2}
    /\ bookings # {}

(***************************************************************************)
(* Termination.                                                            *)
(***************************************************************************)
\* The trigger chain of every statement ends.
TriggerChainsEnd == \A st \in Statements : ~TriggerChainLoops(schema, st, {})

\* C21: under fair scheduling every review submission that was started
\* commits, whatever other submissions run beside it and wait for the same
\* profile row, and the chain of triggers a statement fires ends.
C21_OperationsComplete ==
    /\ []TriggerChainsEnd
    /\ \A s \in Sessions : (sess[s].pc # "idle") ~> (sess[s].pc = "idle")

\* A submission that waits for the row lock of the profile while another,
\* for the same teacher, holds it.
C21_Witness ==
    \E s, o \in Sessions :
        /\ sess[s].pc = "read" /\ sess[o].pc = "written"
        /\ sess[s].row.teacher_id = sess[o].row.teacher_id

(***************************************************************************)
(* Reviews and their bookings.                                             *)
(***************************************************************************)
\* C22: a review insert by a user succeeds only with the teacher_id and the
\* student_id of the booking it references.
C22_ReviewPartiesOfBooking ==
    [][\A c \in Identities, b \in bookings, st \in Identities, t \in Identities,
          r \in RatingInputs :
           InsertReview(c, b.id, st, t, r)
               => (t = b.teacher_id /\ st = b.student_id)]_vars

\* C23: in the revision that defines update_teacher_stats, after a step
\* that changes the set of reviews stored for a teacher (a review inserted,
\* or deleted with its booking), the rating of that teacher is the mean
\* of the reviews stored for it, and 0 when none is left.
C23_RatingFollowsReviews ==
    [][schema = "part_001" =>
          \A p \in profiles' :
              LET before == {r \in reviews : r.teacher_id = p.id}
                  after == {r \in reviews' : r.teacher_id = p.id}
              IN  before # after => IsMean(p.rating, after)]_vars

\* C26: a status update of a booking by a user leaves no review attached
\* to a booking that is not completed.
C26_ReviewedStaysCompleted ==
    [][\A c \in Identities, b \in bookings, s \in booking_status :
           UpdateBooking(c, b, b.teacher_id, s)
               => (OfBookings(reviews, {b}) # {} => s = "completed")]_vars

(***************************************************************************)
(* Columns of profiles.                                                    *)
(***************************************************************************)
\* C24: an update of a profile by a user leaves the rating of the profile
\* as it is.
C24_RatingDerivedOnly ==
    [][\A c \in Identities, p \in profiles, x \in StoredRatingInputs :
           UpdateProfileRating(c, p, x) => x = p.rating]_vars

\* C25: no new-identity event with caller-chosen metadata creates a profile
\* of role admin.
C25_NoAdminByBootstrap ==
    [][\A id \in Identities, email \in Emails, meta \in Metadata :
           handle_new_user(id, email, meta)
               => \A p \in profiles' \ profiles : p.user_type # "admin"]_vars

(***************************************************************************)
(* Rejected operations.                                                    *)
(***************************************************************************)
\* The review row a submission for booking b with rating r would add.
SubmittedRow(b, r) ==
    [id |-> NewId(reviews, MaxReviews), booking_id |-> b.id,
     student_id |-> b.student_id, teacher_id |-> b.teacher_id, rating |-> r]

\* C27: a review submission that is rejected (by the policy or by a
\* constraint) is no step of the store; every review row a step adds is one
\* an accepted insert adds; the profiles change in no step that writes no
\* review, except that a new-identity event adds one; and no step changes a
\* stored profile in anything but its rating.
C27_RejectedLeavesStore ==
    [][/\ \A c \in Callers, b \in bookings, r \in RatingInputs :
              (Cardinality(reviews) < MaxReviews /\ ~InsertReviewAllowed(c, SubmittedRow(b, r)))
                  => ~InsertReview(c, b.id, b.student_id, b.teacher_id, r)
       /\ \A row \in reviews' \ reviews : \E c \in Callers : InsertReviewAllowed(c, row)
       /\ reviews' = reviews => \A p \in profiles : p \in profiles'
       /\ \A p \in profiles :
              \E q \in profiles' : [q EXCEPT !.rating = p.rating] = p]_vars

\* A review is stored, the third user has signed up, a further submission
\* of the booking's student with rating 6 and one of another user are
\* rejected, and so is a second sign-up of the third user.
C27_Witness ==
    /\ Cardinality(reviews) = 1
    /\ "u3" \in Ids(profiles)
    /\ \E b \in bookings :
           /\ b.status = "completed"
           /\ ~InsertReviewAllowed(b.student_id, SubmittedRow(b, 6))
           /\ ~InsertReviewAllowed("u3", SubmittedRow(b, 1))
    /\ \A email \in Emails, meta \in Metadata :
           ~ProfileInsertable(NewProfile("u3", email, meta))

\* C28: handleSubmit calls signUp only when password equals confirmPassword,
\* the route is '/' only after the promise of signUp was fulfilled, and when
\* handleSubmit has finished, by the mismatch return, after a failure or after
\* a success, loading is false.
C28_RegisterFlow ==
    /\ form.promise # "none" => form.password = form.confirmPassword
    /\ form.route = "/" => form.promise = "fulfilled"
    /\ form.pc = "done" => ~form.loading

C28_Witness ==
    /\ form.pc = "done" /\ form.route = "/" /\ ~form.loading
    /\ \E p \in profiles : p.email = form.email /\ p.user_type = form.user_type
    /\ Cardinality(profiles) = 2

====
